---- MODULE Spec2Model ----
(***************************************************************************)
(* Model of the BibliZap results view (frontend/src/results), of the       *)
(* search form that feeds it (frontend/src/form.rs, frontend/src/main.rs)  *)
(* and of the server's /api and /link handlers (src/main.rs,               *)
(* src/tracking.rs).                                                       *)
(*                                                                         *)
(* Strings are sequences of one-character strings, Option<T> is a sequence *)
(* of length 0 (None) or 1 (Some), Vec<T> is a sequence, HashSet<T> a set. *)
(***************************************************************************)
EXTENDS Integers, Sequences, FiniteSets

VARIABLES
    results_status,      \* BibliZapApp: ResultsStatus (the variant's name)
    articles,            \* the Vec<Article> behind ResultsStatus::Available
    pending,             \* get_response futures spawned and not yet resolved
    selected_articles,   \* Results: HashSet<String> of selected DOIs
    global_filter,       \* Results: text of the "Search all fields" input
    filters,             \* Results: Filters, one string per column
    sort_year,           \* Results: SortState of the year header
    sort_citations,      \* Results: SortState of the citations header
    sort_score,          \* Results: SortState of the score header
    articles_per_page,   \* Results: page size
    table_current_page,  \* Results: zero-based page index
    download,            \* the file handed to the browser by the last event
    handler_end,         \* how the last event handler ended
    latest_search,       \* history: what became of the search submitted last
    loaded_articles,     \* history: the store as the last response left it
    header_clicks,       \* history: the clicks on one header that are all that
                         \*   happened since a load into a view at its defaults
    token_link,          \* server: rows of the token_link table
    link_handlers,       \* server: the /link requests, each at its await point
    api_exchange,        \* server: the last /api request and its response
    bbz_events           \* server: the bbz_events inserts spawned by /api

vars == << results_status, articles, pending, selected_articles, global_filter,
           filters, sort_year, sort_citations, sort_score, articles_per_page,
           table_current_page, download, handler_end, latest_search,
           loaded_articles, header_clicks,
           token_link, link_handlers, api_exchange, bbz_events >>

frontendVars == << results_status, articles, pending, selected_articles, global_filter,
                   filters, sort_year, sort_citations, sort_score, articles_per_page,
                   table_current_page, download, handler_end, latest_search,
                   loaded_articles, header_clicks >>

serverVars == << token_link, link_handlers, api_exchange, bbz_events >>

(***************************************************************************)
(* Bounds of the model.                                                    *)
(***************************************************************************)
MaxInFlight == 2
MaxSelected == 1
MaxActiveFilters == 1

(***************************************************************************)
(* Option<T> and strings.                                                  *)
(***************************************************************************)
None == << >>
Some(v) == << v >>
IsSome(o) == o # << >>
UnwrapOrDefault(o, d) == IF o = << >> THEN d ELSE o[1]

EmptyString == << >>

ToLowerChar(c) ==
    CASE c = "A" -> "a"
      [] c = "B" -> "b"
      [] c = "C" -> "c"
      [] OTHER -> c

ToLowercase(s) == [i \in 1..Len(s) |-> ToLowerChar(s[i])]

\* Mutant of Contains: the empty needle is found nowhere.
Contains_NonEmptyNeedle(haystack, needle) ==
    /\ needle # << >>
    /\ \E i \in 0..(Len(haystack) - Len(needle)) :
          SubSeq(haystack, i + 1, i + Len(needle)) = needle

Contains(haystack, needle) ==
    \E i \in 0..(Len(haystack) - Len(needle)) :
        SubSeq(haystack, i + 1, i + Len(needle)) = needle

DigitChar(d) == << "0", "1", "2", "3", "4", "5", "6", "7", "8", "9" >>[d + 1]

RECURSIVE Digits(_)
Digits(n) ==
    IF n < 10 THEN << DigitChar(n) >>
    ELSE Digits(n \div 10) \o << DigitChar(n % 10) >>

I32ToString(n) == IF n < 0 THEN << "-" >> \o Digits(0 - n) ELSE Digits(n)

(***************************************************************************)
(* Article and Filters.                                                    *)
(***************************************************************************)
Article(doi, title, journal, summary, first_author, year_published, citations, score) ==
    [ doi |-> doi, title |-> title, journal |-> journal, summary |-> summary,
      first_author |-> first_author, year_published |-> year_published,
      citations |-> citations, score |-> score ]

TextColumns == { "doi", "title", "journal", "summary", "first_author" }
NumberColumns == { "year_published", "score", "citations" }
Columns == TextColumns \cup NumberColumns
SortableColumns == { "year_published", "citations", "score" }

FiltersDefault == [ c \in Columns |-> EmptyString ]

MatchesGlobal(a, pattern) ==
    LET pattern_lowercase == ToLowercase(pattern) IN
    \/ \E c \in TextColumns :
          IsSome(a[c]) /\ Contains(ToLowercase(a[c][1]), pattern_lowercase)
    \/ \E c \in NumberColumns :
          IsSome(a[c]) /\ Contains(I32ToString(a[c][1]), pattern_lowercase)

\* Mutant of Matches: an absent field passes a column whose filter is empty.
Matches_AbsentPassesEmptyFilter(a, f) ==
    /\ \A c \in TextColumns :
          IF IsSome(a[c]) THEN Contains(ToLowercase(a[c][1]), ToLowercase(f[c]))
          ELSE f[c] = EmptyString
    /\ \A c \in NumberColumns :
          IF IsSome(a[c]) THEN Contains(I32ToString(a[c][1]), f[c])
          ELSE f[c] = EmptyString

Matches(a, f) ==
    /\ \A c \in TextColumns :
          IsSome(a[c]) /\ Contains(ToLowercase(a[c][1]), ToLowercase(f[c]))
    /\ \A c \in NumberColumns :
          IsSome(a[c]) /\ Contains(I32ToString(a[c][1]), f[c])

(***************************************************************************)
(* Sorting: Vec::sort_by_key is a stable sort.                             *)
(***************************************************************************)
\* Mutant of SortKey: an absent key counted as the greatest i32.
SortKey_AbsentAsGreatest(a, field) == UnwrapOrDefault(a[field], 2147483647)

SortKey(a, field) == UnwrapOrDefault(a[field], 0)

\* Ord of the key, or of std::cmp::Reverse(key).
KeyLess(a, b, field, reverse) ==
    IF reverse THEN SortKey(a, field) > SortKey(b, field)
    ELSE SortKey(a, field) < SortKey(b, field)

\* Mutant of SortRank: of two elements with equal keys the later comes first.
SortRank_TiesReversed(s, field, reverse) ==
    [ i \in 1..Len(s) |->
        1 + Cardinality({ k \in 1..Len(s) :
                            \/ KeyLess(s[k], s[i], field, reverse)
                            \/ k > i /\ ~KeyLess(s[i], s[k], field, reverse) }) ] \o << >>

\* The place of each element after a stable sort: behind the elements with a
\* lesser key and behind the earlier elements with an equal key.
SortRank(s, field, reverse) ==
    [ i \in 1..Len(s) |->
        1 + Cardinality({ k \in 1..Len(s) :
                            \/ KeyLess(s[k], s[i], field, reverse)
                            \/ k < i /\ ~KeyLess(s[i], s[k], field, reverse) }) ] \o << >>

\* Mutant of SortByKey: the stable sort applied to the input read backwards.
SortByKey_FromReversed(s, field, reverse) ==
    LET r == [ i \in 1..Len(s) |-> s[Len(s) + 1 - i] ]
        rank == SortRank(r, field, reverse)
    IN  [ p \in 1..Len(s) |-> r[CHOOSE i \in 1..Len(s) : rank[i] = p] ] \o << >>

SortByKey(s, field, reverse) ==
    LET rank == SortRank(s, field, reverse)
    IN  [ p \in 1..Len(s) |-> s[CHOOSE i \in 1..Len(s) : rank[i] = p] ] \o << >>

SortStateNext(s) ==
    CASE s = "None" -> "Ascending"
      [] s = "Ascending" -> "Descending"
      [] s = "Descending" -> "None"

(***************************************************************************)
(* The render pass of Results: filtered view and visible slice.            *)
(***************************************************************************)
Clamp(x, lo, hi) == IF x < lo THEN lo ELSE IF x > hi THEN hi ELSE x

Visible(a) == MatchesGlobal(a, global_filter) /\ Matches(a, filters)

ArticlesToDisplay == SelectSeq(articles, Visible)

\* Mutant of FirstArticle: the start of the slice left unclamped.
FirstArticle_Unclamped(article_total_number) ==
    table_current_page * articles_per_page

FirstArticle(article_total_number) ==
    Clamp(table_current_page * articles_per_page, 0, article_total_number)

LastArticle(article_total_number) ==
    Clamp(FirstArticle(article_total_number) + articles_per_page, 0, article_total_number)

ArticlesSlice ==
    LET articles_to_display == ArticlesToDisplay
        n == Len(articles_to_display)
    IN  SubSeq(articles_to_display, FirstArticle(n) + 1, LastArticle(n))

(***************************************************************************)
(* TableFooter: page count and the page buttons it renders.                *)
(***************************************************************************)
contiguous_window_radius == 2

TotalPageNumber(article_total_number, per_page) ==
    article_total_number \div per_page

LastPageIndex(article_total_number, per_page) ==
    TotalPageNumber(article_total_number, per_page) - 1

ContiguousHighBound(n, per_page, current_page) ==
    LET total == TotalPageNumber(n, per_page)
        low == Clamp(current_page - contiguous_window_radius, 0, total)
    IN  Clamp(low + 2 * contiguous_window_radius + 1, 0, total)

\* Mutant of ContiguousLowBound: the low bound of the first clamp, not recomputed.
ContiguousLowBound_SinglePass(n, per_page, current_page) ==
    Clamp(current_page - contiguous_window_radius, 0, TotalPageNumber(n, per_page))

ContiguousLowBound(n, per_page, current_page) ==
    Clamp(ContiguousHighBound(n, per_page, current_page)
              - 2 * contiguous_window_radius - 1,
          0, TotalPageNumber(n, per_page))

PageItem(i) == [ kind |-> "PageItem", page_index |-> i ]
EllipsisItem == [ kind |-> "Ellipsis", page_index |-> 0 ]

ContiguousRange(low, high) ==
    IF high > low THEN [ k \in 1..(high - low) |-> low + k - 1 ] ELSE << >>

\* Mutant of PaginationHead: the first-page button rendered whatever the window.
PaginationHead_Unguarded(n, per_page, current_page) ==
    LET low == ContiguousLowBound(n, per_page, current_page)
    IN  << PageItem(0) >> \o (IF low > 1 THEN << EllipsisItem >> ELSE << >>)

\* The first-page button and the ellipsis after it.
PaginationHead(n, per_page, current_page) ==
    LET low == ContiguousLowBound(n, per_page, current_page)
    IN  IF low # 0
        THEN << PageItem(0) >> \o (IF low > 1 THEN << EllipsisItem >> ELSE << >>)
        ELSE << >>

\* The buttons of the contiguous window.
PaginationWindow(n, per_page, current_page) ==
    LET range == ContiguousRange(ContiguousLowBound(n, per_page, current_page),
                                 ContiguousHighBound(n, per_page, current_page))
    IN  IF Len(range) # 1
        THEN [ k \in 1..Len(range) |-> PageItem(range[k]) ]
        ELSE << >>

\* The last-page button and the ellipsis before it.
PaginationTail(n, per_page, current_page) ==
    LET total == TotalPageNumber(n, per_page)
        low == ContiguousLowBound(n, per_page, current_page)
        high == ContiguousHighBound(n, per_page, current_page)
    IN  IF high # total
        THEN (IF total - low > 1 THEN << EllipsisItem >> ELSE << >>)
                 \o << PageItem(LastPageIndex(n, per_page)) >>
        ELSE << >>

Pagination(n, per_page, current_page) ==
    PaginationHead(n, per_page, current_page)
        \o PaginationWindow(n, per_page, current_page)
        \o PaginationTail(n, per_page, current_page)

RenderedPageIndices ==
    LET items == Pagination(Len(ArticlesToDisplay), articles_per_page, table_current_page)
    IN  { items[k].page_index : k \in { k \in 1..Len(items) : items[k].kind = "PageItem" } }

PageSizes == { 10, 50, 100, 500 }

(***************************************************************************)
(* The search form: SnowballParameters::new validates the identifier list. *)
(***************************************************************************)
IsAsciiDigit(c) == c \in { "0", "1", "2", "3", "4", "5", "6", "7", "8", "9" }

StartsWith(s, prefix) ==
    Len(s) >= Len(prefix) /\ SubSeq(s, 1, Len(prefix)) = prefix

\* s.chars().skip(3).take_while(|c| c.is_ascii_digit()).count()
DigitRunAfterPrefix(s) ==
    LET rest == SubSeq(s, 4, Len(s))
        stops == { k \in 1..Len(rest) : ~IsAsciiDigit(rest[k]) }
    IN  IF stops = {} THEN Len(rest)
        ELSE (CHOOSE k \in stops : \A m \in stops : k <= m) - 1

is_valid_doi(s) ==
    /\ StartsWith(s, << "1", "0", "." >>)
    /\ Len(s) > 7
    /\ \E k \in 1..Len(s) : s[k] = "/"
    /\ DigitRunAfterPrefix(s) >= 4

is_valid_pmid(s) == s # << >> /\ \A k \in 1..Len(s) : IsAsciiDigit(s[k])

is_valid_id(s) == is_valid_doi(s) \/ is_valid_pmid(s)

MaxFormIds == 10

SnowballParametersNew(ids) ==
    IF Len(ids) > MaxFormIds THEN "TooManyIds"
    ELSE IF \E k \in 1..Len(ids) : ~is_valid_id(ids[k]) THEN "InvalidIdFormat"
    ELSE IF ids = << >> THEN "NoValidIds"
    ELSE "Ok"

\* Identifier lists typed into the form (after trim and split_whitespace).
FormInputs ==
    { << >>,
      << << "7" >> >>,
      << << "1", "0", ".", "1", "2", "3", "4", "/", "x" >> >>,
      << << "x" >> >> }

(***************************************************************************)
(* The server's copy of the validators and handle_request (src/main.rs).   *)
(***************************************************************************)
server_is_valid_doi(s) ==
    /\ StartsWith(s, << "1", "0", "." >>)
    /\ Len(s) > 7
    /\ \E k \in 1..Len(s) : s[k] = "/"
    /\ DigitRunAfterPrefix(s) >= 4

server_is_valid_pmid(s) == s # << >> /\ \A k \in 1..Len(s) : IsAsciiDigit(s[k])

server_is_valid_id(s) == server_is_valid_doi(s) \/ server_is_valid_pmid(s)

MaxServerIds == 7

\* Result of biblizap_rs::snowball followed by serde_json::to_string.
SnowballResults == { "Ok", "Biblizap", "JsonError" }

\* What handle_request returns: Ok or the variant of Error, the argument of the
\* variant, and whether biblizap_rs::snowball was called.
HandleResult(result, detail, snowball_ran) ==
    [ result |-> result, detail |-> detail, snowball_ran |-> snowball_ran ]

\* Mutant of HandleRequest: the entry named by InvalidIdFormat is the last
\* invalid one.
HandleRequest_NamesLastInvalid(body, snowball) ==
    IF body = None THEN HandleResult("JsonError", << >>, FALSE)
    ELSE LET input_id_list == body[1]
             invalid == { k \in 1..Len(input_id_list) :
                              ~server_is_valid_id(input_id_list[k]) }
         IN  IF Len(input_id_list) > MaxServerIds
             THEN HandleResult("TooManyIds", << Len(input_id_list) >>, FALSE)
             ELSE IF input_id_list = << >>
             THEN HandleResult("NoValidIds", << >>, FALSE)
             ELSE IF invalid # {}
             THEN HandleResult("InvalidIdFormat",
                               << input_id_list[CHOOSE k \in invalid :
                                                    \A m \in invalid : m <= k] >>,
                               FALSE)
             ELSE IF snowball = "Ok" THEN HandleResult("Ok", << >>, TRUE)
             ELSE HandleResult(snowball, << >>, TRUE)

\* body is None where the request body does not deserialize as
\* SnowballParameters, Some(input_id_list) where it does.
HandleRequest(body, snowball) ==
    IF body = None THEN HandleResult("JsonError", << >>, FALSE)
    ELSE LET input_id_list == body[1]
             invalid == { k \in 1..Len(input_id_list) :
                              ~server_is_valid_id(input_id_list[k]) }
         IN  IF Len(input_id_list) > MaxServerIds
             THEN HandleResult("TooManyIds", << Len(input_id_list) >>, FALSE)
             ELSE IF input_id_list = << >>
             THEN HandleResult("NoValidIds", << >>, FALSE)
             ELSE IF invalid # {}
             THEN HandleResult("InvalidIdFormat",
                               << input_id_list[CHOOSE k \in invalid :
                                                    \A m \in invalid : k <= m] >>,
                               FALSE)
             ELSE IF snowball = "Ok" THEN HandleResult("Ok", << >>, TRUE)
             ELSE HandleResult(snowball, << >>, TRUE)

\* api: the HTTP status of the response.
ApiStatus(result) ==
    IF result = "Ok" THEN 200
    ELSE IF result \in { "InvalidIdFormat", "TooManyIds", "NoValidIds" } THEN 400
    ELSE 500

\* Values of the bbz_sid cookie; Uuid::parse_str accepts the texts of UuidTexts.
UuidTexts == { "6f1c" }
Cookies == { None, Some("6f1c"), Some("zz") }
ParseUuid(cookie) ==
    IF cookie # None /\ cookie[1] \in UuidTexts THEN cookie ELSE None

\* Identifiers and identifier lists in the bodies of /api requests.
Repeat(x, n) == [ k \in 1..n |-> x ]
ApiIds ==
    { << "7" >>,
      << "x" >>,
      << "1", "0", ".", "1", "2", "3", "4", "/", "x" >>,
      << "1", "0", ".", "1", "2", "3", "4", "/" >>,
      << "1", "0", ".", "1", "2", "3", "4", "x", "/", "y" >>,
      << "1", "0", ".", "1", "2", "3", "/", "x", "y" >> }
ApiIdLists ==
    { << >> }
        \cup { << a >> : a \in ApiIds }
        \cup { << a, b >> : a \in { << "7" >>, << "x" >> }, b \in { << "7" >>, << "x" >>, << "y" >> } }
        \cup { Repeat(<< "7" >>, n) : n \in { MaxServerIds, MaxServerIds + 1,
                                            MaxFormIds, MaxFormIds + 1 } }
        \cup { Append(Repeat(<< "7" >>, MaxServerIds), << "x" >>) }
ApiBodies == { None } \cup { Some(l) : l \in ApiIdLists }

(***************************************************************************)
(* The server's /link handler (src/tracking.rs).                           *)
(***************************************************************************)
MaxLinkRequests == 3

\* Tokens posted to /link; validate_biblitest_token accepts those whose
\* format and CRC32 checksum are right, the tokens of WellFormedTokens.
WellFormedTokens == { "BT-A", "BT-B" }
LinkTokens == WellFormedTokens \cup { "BT" }
validate_biblitest_token(token) == IF token \in WellFormedTokens THEN "Ok" ELSE "Err"

\* Session identifiers: generate_bbz_sid draws one that nothing holds yet.
Sids == 1..MaxLinkRequests

LinkHandler(pc, token, new_sid, status, bbz_sid) ==
    [ token |-> token, pc |-> pc, new_sid |-> new_sid, status |-> status,
      bbz_sid |-> bbz_sid ]

LinkHandlerIdle == LinkHandler("Idle", "", None, 0, None)

TokenLinkRow(token, sid) == [ bbz_sid |-> sid, biblitest_token |-> token ]

(***************************************************************************)
(* Responses of the search service (arrival order, before the load sort).  *)
(***************************************************************************)
ArtA == Article(Some(<< "a" >>), Some(<< "C", "a" >>), Some(<< "j" >>), Some(<< "s" >>),
                Some(<< "B" >>), Some(1), Some(3), Some(5))
ArtB == Article(Some(<< "b" >>), Some(<< "b" >>), Some(<< "j" >>), Some(<< "s" >>),
                Some(<< "B" >>), Some(2), Some(3), Some(5))
ArtNoDoi == Article(None, Some(<< "C", "a" >>), Some(<< "j" >>), None,
                    Some(<< "B" >>), Some(2), None, None)

Payloads == { << ArtA, ArtB >>, << ArtB >>, << ArtNoDoi, ArtA >>, << >> }

(***************************************************************************)
(* State of the mounted Results component.                                 *)
(***************************************************************************)
FilterTexts == { EmptyString, << "A" >> }
Formats == { "xlsx", "ris", "bib" }

NoDownload == None

\* Value of header_clicks once an event other than a header click has happened.
Untracked == << "-" >>

viewVars == << selected_articles, global_filter, filters, sort_year, sort_citations,
               sort_score, articles_per_page, table_current_page >>

\* The use_state / use_mut_ref initialisers run when Results mounts.
ResultsMount ==
    /\ selected_articles' = {}
    /\ global_filter' = EmptyString
    /\ filters' = FiltersDefault
    /\ sort_year' = "None"
    /\ sort_citations' = "None"
    /\ sort_score' = "None"
    /\ articles_per_page' = 10
    /\ table_current_page' = 0

ViewIsDefault ==
    /\ selected_articles = {}
    /\ global_filter = EmptyString
    /\ filters = FiltersDefault
    /\ sort_year = "None"
    /\ sort_citations = "None"
    /\ sort_score = "None"
    /\ articles_per_page = 10
    /\ table_current_page = 0

Init ==
    /\ results_status = "NotRequested"
    /\ articles = << >>
    /\ pending = 0
    /\ selected_articles = {}
    /\ global_filter = EmptyString
    /\ filters = FiltersDefault
    /\ sort_year = "None"
    /\ sort_citations = "None"
    /\ sort_score = "None"
    /\ articles_per_page = 10
    /\ table_current_page = 0
    /\ download = NoDownload
    /\ handler_end = "Returned"
    /\ latest_search = "None"
    /\ loaded_articles = << >>
    /\ header_clicks = << >>
    /\ token_link = {}
    /\ link_handlers = [ h \in 1..MaxLinkRequests |-> LinkHandlerIdle ]
    /\ api_exchange = None
    /\ bbz_events = << >>

(***************************************************************************)
(* SnowballForm onsubmit and the BibliZapApp callbacks.                    *)
(***************************************************************************)
\* Mutant of Submit: a valid form sets Requested and spawns no request.
Submit_SpawnsNothing(ids) ==
    /\ IF SnowballParametersNew(ids) = "Ok"
       THEN /\ pending < MaxInFlight
            /\ results_status' = "Requested"
            /\ pending' = pending
       ELSE /\ results_status' = "RequestError"
            /\ pending' = pending
    /\ articles' = << >>
    /\ ResultsMount
    /\ download' = NoDownload
    /\ handler_end' = "Returned"
    /\ latest_search' = IF SnowballParametersNew(ids) = "Ok" THEN "InFlight"
                        ELSE "Untracked"
    /\ loaded_articles' = << >>
    /\ UNCHANGED serverVars
    /\ header_clicks' = << >>

Submit(ids) ==
    /\ IF SnowballParametersNew(ids) = "Ok"
       THEN /\ pending < MaxInFlight
            /\ results_status' = "Requested"
            /\ pending' = pending + 1
       ELSE /\ results_status' = "RequestError"
            /\ pending' = pending
    /\ articles' = << >>
    /\ ResultsMount
    /\ download' = NoDownload
    /\ handler_end' = "Returned"
    /\ latest_search' = IF SnowballParametersNew(ids) = "Ok" THEN "InFlight"
                        ELSE "Untracked"
    /\ loaded_articles' = << >>
    /\ UNCHANGED serverVars
    /\ header_clicks' = << >>

\* The future that resolves is the one of the search submitted last, or the
\* one of an older search: nothing orders the responses.
ResolveFuture ==
    \/ /\ latest_search = "InFlight"
       /\ latest_search' = "Shown"
    \/ /\ latest_search # "Untracked"
       /\ pending > (IF latest_search = "InFlight" THEN 1 ELSE 0)
       /\ latest_search' = IF latest_search = "InFlight" THEN "InFlight" ELSE "Overwritten"
    \/ /\ latest_search = "Untracked"
       /\ latest_search' = "Untracked"

\* Mutant of ReceiveArticles: the response stored in arrival order.
ReceiveArticles_ArrivalOrder(payload) ==
    /\ pending > 0
    /\ pending' = pending - 1
    /\ articles' = payload
    /\ results_status' = "Available"
    /\ IF results_status = "Available"
       THEN UNCHANGED viewVars
       ELSE ResultsMount
    /\ download' = NoDownload
    /\ handler_end' = "Returned"
    /\ ResolveFuture
    /\ loaded_articles' = articles'
    /\ UNCHANGED serverVars
    /\ header_clicks' = IF ViewIsDefault' THEN << >> ELSE Untracked

\* A response that is Ok(articles): get_response sorts by descending score.
ReceiveArticles(payload) ==
    /\ pending > 0
    /\ pending' = pending - 1
    /\ articles' = SortByKey(payload, "score", TRUE)
    /\ results_status' = "Available"
    /\ IF results_status = "Available"
       THEN UNCHANGED viewVars      \* Results stays mounted: only its props change
       ELSE ResultsMount
    /\ download' = NoDownload
    /\ handler_end' = "Returned"
    /\ ResolveFuture
    /\ loaded_articles' = articles'
    /\ UNCHANGED serverVars
    /\ header_clicks' = IF ViewIsDefault' THEN << >> ELSE Untracked

\* A response that is Err(_).
ReceiveError ==
    /\ pending > 0
    /\ pending' = pending - 1
    /\ results_status' = "RequestError"
    /\ articles' = << >>
    /\ ResultsMount
    /\ download' = NoDownload
    /\ handler_end' = "Returned"
    /\ ResolveFuture
    /\ loaded_articles' = << >>
    /\ UNCHANGED serverVars
    /\ header_clicks' = << >>

(***************************************************************************)
(* Event handlers of Results and its children.                             *)
(***************************************************************************)
SortStateOf(field) ==
    CASE field = "year_published" -> sort_year
      [] field = "citations" -> sort_citations
      [] field = "score" -> sort_score

\* Mutant of HeaderCellClick: the return to None leaves the order as it is.
HeaderCellClick_NoneKeepsOrder(field) ==
    LET new_state == SortStateNext(SortStateOf(field)) IN
    /\ results_status = "Available"
    /\ UNCHANGED << results_status, pending, selected_articles, global_filter, filters,
                    articles_per_page, table_current_page, loaded_articles >>
    /\ sort_year' = IF field = "year_published" THEN new_state ELSE sort_year
    /\ sort_citations' = IF field = "citations" THEN new_state ELSE sort_citations
    /\ sort_score' = IF field = "score" THEN new_state ELSE sort_score
    /\ download' = NoDownload
    /\ handler_end' = "Returned"
    /\ latest_search' = "Untracked"
    /\ UNCHANGED serverVars
    /\ header_clicks' = IF /\ header_clicks # Untracked
                           /\ Len(header_clicks) < 3
                           /\ \A k \in 1..Len(header_clicks) : header_clicks[k] = field
                        THEN Append(header_clicks, field)
                        ELSE Untracked
    /\ articles' = CASE new_state = "None" -> articles
                     [] new_state = "Ascending" -> SortByKey(articles, field, FALSE)
                     [] new_state = "Descending" -> SortByKey(articles, field, TRUE)

HeaderCellClick(field) ==
    LET new_state == SortStateNext(SortStateOf(field)) IN
    /\ results_status = "Available"
    /\ UNCHANGED << results_status, pending, selected_articles, global_filter, filters,
                    articles_per_page, table_current_page, loaded_articles >>
    /\ sort_year' = IF field = "year_published" THEN new_state ELSE sort_year
    /\ sort_citations' = IF field = "citations" THEN new_state ELSE sort_citations
    /\ sort_score' = IF field = "score" THEN new_state ELSE sort_score
    /\ download' = NoDownload
    /\ handler_end' = "Returned"
    /\ latest_search' = "Untracked"
    /\ UNCHANGED serverVars
    /\ header_clicks' = IF /\ header_clicks # Untracked
                           /\ Len(header_clicks) < 3
                           /\ \A k \in 1..Len(header_clicks) : header_clicks[k] = field
                        THEN Append(header_clicks, field)
                        ELSE Untracked
    /\ articles' = CASE new_state = "None" -> SortByKey(articles, "score", TRUE)
                     [] new_state = "Ascending" -> SortByKey(articles, field, FALSE)
                     [] new_state = "Descending" -> SortByKey(articles, field, TRUE)

\* Mutant of CardSortClick: the card view sorts a copy of its own and leaves
\* the store as it is.
CardSortClick_SortsOwnCopy(field) ==
    /\ results_status = "Available"
    /\ UNCHANGED << results_status, pending, viewVars, loaded_articles >>
    /\ download' = NoDownload
    /\ handler_end' = "Returned"
    /\ latest_search' = "Untracked"
    /\ UNCHANGED serverVars
    /\ header_clicks' = Untracked
    /\ articles' = articles

CardSortClick(field) ==
    /\ results_status = "Available"
    /\ UNCHANGED << results_status, pending, viewVars, loaded_articles >>
    /\ download' = NoDownload
    /\ handler_end' = "Returned"
    /\ latest_search' = "Untracked"
    /\ UNCHANGED serverVars
    /\ header_clicks' = Untracked
    /\ articles' = SortByKey(articles, field, TRUE)

ActiveFilters(f, g) ==
    Cardinality({ c \in Columns : f[c] # EmptyString }) + (IF g # EmptyString THEN 1 ELSE 0)

ColumnFilterInput(field, value) ==
    /\ results_status = "Available"
    /\ filters' = [ filters EXCEPT ![field] = value ]
    /\ ActiveFilters(filters', global_filter) <= MaxActiveFilters
    /\ download' = NoDownload
    /\ handler_end' = "Returned"
    /\ latest_search' = "Untracked"
    /\ UNCHANGED serverVars
    /\ header_clicks' = Untracked
    /\ UNCHANGED loaded_articles
    /\ UNCHANGED << results_status, articles, pending, selected_articles, global_filter,
                    sort_year, sort_citations, sort_score, articles_per_page,
                    table_current_page >>

\* Mutant of GlobalFilterInput: the store narrowed to the records that match.
GlobalFilterInput_NarrowsStore(value) ==
    /\ results_status = "Available"
    /\ global_filter' = value
    /\ ActiveFilters(filters, value) <= MaxActiveFilters
    /\ download' = NoDownload
    /\ handler_end' = "Returned"
    /\ latest_search' = "Untracked"
    /\ UNCHANGED serverVars
    /\ header_clicks' = Untracked
    /\ UNCHANGED loaded_articles
    /\ articles' = SelectSeq(articles, LAMBDA a : MatchesGlobal(a, value))
    /\ UNCHANGED << results_status, pending, selected_articles, filters,
                    sort_year, sort_citations, sort_score, articles_per_page,
                    table_current_page >>

GlobalFilterInput(value) ==
    /\ results_status = "Available"
    /\ global_filter' = value
    /\ ActiveFilters(filters, value) <= MaxActiveFilters
    /\ download' = NoDownload
    /\ handler_end' = "Returned"
    /\ latest_search' = "Untracked"
    /\ UNCHANGED serverVars
    /\ header_clicks' = Untracked
    /\ UNCHANGED loaded_articles
    /\ UNCHANGED << results_status, articles, pending, selected_articles, filters,
                    sort_year, sort_citations, sort_score, articles_per_page,
                    table_current_page >>

PageItemClick(page_index) ==
    /\ results_status = "Available"
    /\ table_current_page' = page_index
    /\ download' = NoDownload
    /\ handler_end' = "Returned"
    /\ latest_search' = "Untracked"
    /\ UNCHANGED serverVars
    /\ header_clicks' = Untracked
    /\ UNCHANGED loaded_articles
    /\ UNCHANGED << results_status, articles, pending, selected_articles, global_filter,
                    filters, sort_year, sort_citations, sort_score, articles_per_page >>

\* Mutant of ArticlesPerPageClick: the selection reset with the page index.
ArticlesPerPageClick_ClearsSelection(value) ==
    /\ results_status = "Available"
    /\ table_current_page' = 0
    /\ articles_per_page' = value
    /\ selected_articles' = {}
    /\ download' = NoDownload
    /\ handler_end' = "Returned"
    /\ latest_search' = "Untracked"
    /\ UNCHANGED serverVars
    /\ header_clicks' = Untracked
    /\ UNCHANGED loaded_articles
    /\ UNCHANGED << results_status, articles, pending, global_filter,
                    filters, sort_year, sort_citations, sort_score >>

\* Mutant of ArticlesPerPageClick: the page index kept across the change.
ArticlesPerPageClick_KeepsPage(value) ==
    /\ results_status = "Available"
    /\ articles_per_page' = value
    /\ download' = NoDownload
    /\ handler_end' = "Returned"
    /\ latest_search' = "Untracked"
    /\ UNCHANGED serverVars
    /\ header_clicks' = Untracked
    /\ UNCHANGED loaded_articles
    /\ UNCHANGED << results_status, articles, pending, selected_articles, global_filter,
                    filters, sort_year, sort_citations, sort_score, table_current_page >>

ArticlesPerPageClick(value) ==
    /\ results_status = "Available"
    /\ table_current_page' = 0
    /\ articles_per_page' = value
    /\ download' = NoDownload
    /\ handler_end' = "Returned"
    /\ latest_search' = "Untracked"
    /\ UNCHANGED serverVars
    /\ header_clicks' = Untracked
    /\ UNCHANGED loaded_articles
    /\ UNCHANGED << results_status, articles, pending, selected_articles, global_filter,
                    filters, sort_year, sort_citations, sort_score >>

\* update_selected, as emitted by the checkbox of a row or a card.
UpdateSelected(doi, checked) ==
    IF checked THEN selected_articles \cup { doi } ELSE selected_articles \ { doi }

\* The checkbox of the row (or card) rendered for `article`.
CheckboxChange(article, checked) ==
    /\ results_status = "Available"
    /\ selected_articles' = IF IsSome(article.doi)
                            THEN UpdateSelected(article.doi[1], checked)
                            ELSE selected_articles
    /\ Cardinality(selected_articles') <= MaxSelected
    /\ download' = NoDownload
    /\ handler_end' = "Returned"
    /\ latest_search' = "Untracked"
    /\ UNCHANGED serverVars
    /\ header_clicks' = Untracked
    /\ UNCHANGED loaded_articles
    /\ UNCHANGED << results_status, articles, pending, global_filter, filters, sort_year,
                    sort_citations, sort_score, articles_per_page, table_current_page >>

\* The checkbox of the card rendered for `article`.
CardCheckboxChange(article, checked) ==
    /\ results_status = "Available"
    /\ selected_articles' = IF IsSome(article.doi)
                            THEN UpdateSelected(article.doi[1], checked)
                            ELSE selected_articles
    /\ Cardinality(selected_articles') <= MaxSelected
    /\ download' = NoDownload
    /\ handler_end' = "Returned"
    /\ latest_search' = "Untracked"
    /\ UNCHANGED serverVars
    /\ header_clicks' = Untracked
    /\ UNCHANGED loaded_articles
    /\ UNCHANGED << results_status, articles, pending, global_filter, filters, sort_year,
                    sort_citations, sort_score, articles_per_page, table_current_page >>

\* The two surfaces of a render pass: the rows of the table and the cards of
\* the card view, each with the checked flag of its checkbox.
RowIsSelected(article) ==
    IF IsSome(article.doi) THEN article.doi[1] \in selected_articles ELSE FALSE

CardIsSelected(article) ==
    IF IsSome(article.doi) THEN article.doi[1] \in selected_articles ELSE FALSE

TableSurface ==
    LET slice == ArticlesSlice
    IN  [ k \in 1..Len(slice) |->
            [ article |-> slice[k], is_selected |-> RowIsSelected(slice[k]) ] ] \o << >>

CardSurface ==
    LET slice == ArticlesSlice
    IN  [ k \in 1..Len(slice) |->
            [ article |-> slice[k], is_selected |-> CardIsSelected(slice[k]) ] ] \o << >>

\* Mutants of GetArticlesToDownload: the filtered view taken for the store.
GetArticlesToDownload_SelectedAmongVisible ==
    IF selected_articles = {} THEN articles
    ELSE SelectSeq(ArticlesToDisplay,
                   LAMBDA a : IF IsSome(a.doi) THEN a.doi[1] \in selected_articles
                              ELSE FALSE)

GetArticlesToDownload_VisibleWhenNoneSelected ==
    IF selected_articles = {} THEN ArticlesToDisplay
    ELSE SelectSeq(articles,
                   LAMBDA a : IF IsSome(a.doi) THEN a.doi[1] \in selected_articles
                              ELSE FALSE)

\* Mutant of GetArticlesToDownload: a record without a DOI passes the filter.
GetArticlesToDownload_AbsentDoiPasses ==
    IF selected_articles = {} THEN articles
    ELSE SelectSeq(articles,
                   LAMBDA a : IF IsSome(a.doi) THEN a.doi[1] \in selected_articles
                              ELSE TRUE)

GetArticlesToDownload ==
    IF selected_articles = {} THEN articles
    ELSE SelectSeq(articles,
                   LAMBDA a : IF IsSome(a.doi) THEN a.doi[1] \in selected_articles
                              ELSE FALSE)

\* Mutants of FilenameSuffix: the qualifier decided by the selection being
\* empty, and by the length of the filtered view.
FilenameSuffix_BySelection(articles_to_download) ==
    IF selected_articles = {} THEN "all" ELSE "selected"

FilenameSuffix_AgainstVisible(articles_to_download) ==
    IF Len(articles_to_download) = Len(ArticlesToDisplay) THEN "all" ELSE "selected"

FilenameSuffix(articles_to_download) ==
    IF Len(articles_to_download) = Len(articles) THEN "all" ELSE "selected"

\* Result of a serializer (to_excel, to_ris, to_bibtex) and of
\* Url::create_object_url_with_blob, as the writer and the browser decide.
CallResults == { "Ok", "Err" }

\* download_bytes_as_file: the anchor is clicked once the object URL exists; the
\* URL is not revoked, and remove_child of the anchor, which was never attached
\* to the document, is an Err that the handler logs.
DownloadClick(format, bytes, object_url) ==
    /\ results_status = "Available"
    /\ IF bytes = "Err"
       THEN /\ download' = NoDownload             \* unwrap() of the Err
            /\ handler_end' = "Panicked"
       ELSE IF object_url = "Err"
       THEN /\ download' = NoDownload
            /\ handler_end' = "LoggedError"
       ELSE /\ download' = Some([ articles |-> GetArticlesToDownload,
                                  suffix |-> FilenameSuffix(GetArticlesToDownload),
                                  ext |-> format,
                                  url_released |-> FALSE ])
            /\ handler_end' = "LoggedError"
    /\ UNCHANGED serverVars
    /\ header_clicks' = Untracked
    /\ latest_search' = "Untracked"
    /\ UNCHANGED << results_status, articles, pending, viewVars, loaded_articles >>

(***************************************************************************)
(* The server's handlers: api (src/main.rs) and link_handler, with the     *)
(* event inserts that api spawns (src/tracking.rs).                        *)
(***************************************************************************)
MaxEvents == 2

BbzEvent(bbz_sid, event_type, insert) ==
    [ bbz_sid |-> bbz_sid, event_type |-> event_type, insert |-> insert ]

ApiExchange(body, cookie, outcome) ==
    [ result |-> outcome.result, detail |-> outcome.detail,
      snowball_ran |-> outcome.snowball_ran, body |-> body, cookie |-> cookie,
      status |-> ApiStatus(outcome.result) ]

\* Mutant of Api: the event is logged whether or not the cookie parses.
Api_LogsWithoutSession(body, cookie, snowball) ==
    LET outcome == HandleRequest(body, snowball)
        bbz_sid == ParseUuid(cookie)
    IN  /\ Len(bbz_events) < MaxEvents
        /\ bbz_events' = Append(bbz_events,
                                BbzEvent(bbz_sid,
                                         IF outcome.result = "Ok" THEN "search_success"
                                         ELSE "search_error",
                                         "Started"))
        /\ api_exchange' = Some(ApiExchange(body, cookie, outcome))
        /\ UNCHANGED << token_link, link_handlers >>
        /\ UNCHANGED frontendVars

\* api: handle_request is awaited, log_search_success or log_search_error
\* spawns the insert where the cookie holds a UUID, and the response is built.
Api(body, cookie, snowball) ==
    LET outcome == HandleRequest(body, snowball)
        bbz_sid == ParseUuid(cookie)
    IN  /\ bbz_sid # None => Len(bbz_events) < MaxEvents
        /\ bbz_events' = IF bbz_sid # None
                         THEN Append(bbz_events,
                                     BbzEvent(bbz_sid,
                                              IF outcome.result = "Ok" THEN "search_success"
                                              ELSE "search_error",
                                              "Started"))
                         ELSE bbz_events
        /\ api_exchange' = Some(ApiExchange(body, cookie, outcome))
        /\ UNCHANGED << token_link, link_handlers >>
        /\ UNCHANGED frontendVars

\* The task spawned by log_search_success or log_search_error: the insert ends
\* and a failure is logged.
EventInsertEnds(k, result) ==
    /\ k \in 1..Len(bbz_events)
    /\ bbz_events[k].insert = "Started"
    /\ bbz_events' = [ bbz_events EXCEPT
                           ![k].insert = IF result = "Ok" THEN "Inserted" ELSE "Failed" ]
    /\ UNCHANGED << token_link, link_handlers, api_exchange >>
    /\ UNCHANGED frontendVars

\* Session identifiers that no row and no handler holds.
FreshSids ==
    { sid \in Sids :
          /\ \A row \in token_link : row.bbz_sid # sid
          /\ \A h \in 1..MaxLinkRequests : link_handlers[h].new_sid # Some(sid) }

RowsOf(token) == { row \in token_link : row.biblitest_token = token }

\* link_handler up to its second await: the token is validated and the SELECT
\* runs; a row found ends the request with its bbz_sid.
LinkSelect(h, token, select) ==
    /\ link_handlers[h].pc = "Idle"
    /\ IF validate_biblitest_token(token) = "Err"
       THEN link_handlers' = [ link_handlers EXCEPT
                                   ![h] = LinkHandler("Done", token, None, 400, None) ]
       ELSE IF select = "Err"
       THEN link_handlers' = [ link_handlers EXCEPT
                                   ![h] = LinkHandler("Done", token, None, 500, None) ]
       ELSE IF RowsOf(token) # {}
       THEN \E row \in RowsOf(token) :
                link_handlers' = [ link_handlers EXCEPT
                                       ![h] = LinkHandler("Done", token, None, 200,
                                                          Some(row.bbz_sid)) ]
       ELSE \E new_sid \in FreshSids :
                link_handlers' = [ link_handlers EXCEPT
                                       ![h] = LinkHandler("Insert", token, Some(new_sid),
                                                          0, None) ]
    /\ UNCHANGED << token_link, api_exchange, bbz_events >>
    /\ UNCHANGED frontendVars

\* Mutant of LinkInsert: ON CONFLICT DO UPDATE SET bbz_sid = EXCLUDED.bbz_sid.
LinkInsert_ConflictOverwrites(h, insert) ==
    LET token == link_handlers[h].token
        new_sid == link_handlers[h].new_sid[1]
    IN  /\ link_handlers[h].pc = "Insert"
        /\ IF insert = "Err"
           THEN /\ token_link' = token_link
                /\ link_handlers' = [ link_handlers EXCEPT
                                          ![h] = LinkHandler("Done", token, Some(new_sid), 500, None) ]
           ELSE /\ token_link' = ( token_link \ RowsOf(token) )
                                     \cup { TokenLinkRow(token, new_sid) }
                /\ link_handlers' = [ link_handlers EXCEPT
                                          ![h] = LinkHandler("Done", token, Some(new_sid), 200,
                                                             Some(new_sid)) ]
        /\ UNCHANGED << api_exchange, bbz_events >>
        /\ UNCHANGED frontendVars

\* link_handler from its second await: INSERT ... ON CONFLICT (biblitest_token)
\* DO UPDATE SET biblitest_token = EXCLUDED.biblitest_token RETURNING bbz_sid.
\* A row that another request inserted meanwhile is kept as it is and its
\* bbz_sid is the one returned.
LinkInsert(h, insert) ==
    LET token == link_handlers[h].token
        new_sid == link_handlers[h].new_sid[1]
    IN  /\ link_handlers[h].pc = "Insert"
        /\ IF insert = "Err"
           THEN /\ token_link' = token_link
                /\ link_handlers' = [ link_handlers EXCEPT
                                          ![h] = LinkHandler("Done", token, Some(new_sid), 500, None) ]
           ELSE IF RowsOf(token) # {}
           THEN /\ token_link' = token_link
                /\ \E row \in RowsOf(token) :
                       link_handlers' = [ link_handlers EXCEPT
                                              ![h] = LinkHandler("Done", token, Some(new_sid), 200,
                                                                 Some(row.bbz_sid)) ]
           ELSE /\ token_link' = token_link \cup { TokenLinkRow(token, new_sid) }
                /\ link_handlers' = [ link_handlers EXCEPT
                                          ![h] = LinkHandler("Done", token, Some(new_sid), 200,
                                                             Some(new_sid)) ]
        /\ UNCHANGED << api_exchange, bbz_events >>
        /\ UNCHANGED frontendVars

\* Inputs of the events: the columns typed into, the rows clicked.
FilterFields == { "title", "year_published" }
MaxRow == 2
ClickableRows ==
    LET slice == ArticlesSlice
    IN  { slice[k] : k \in 1..(IF Len(slice) < MaxRow THEN Len(slice) ELSE MaxRow) }

\* Every handler of the view over the small responses. A page button is rendered
\* only for 20 records or more (TotalPageNumber >= 2), so PageItemClick is
\* never enabled here: it is part of NextPaging.
Next ==
    \/ \E ids \in FormInputs : Submit(ids)
    \/ \E payload \in Payloads : ReceiveArticles(payload)
    \/ ReceiveError
    \/ \E field \in SortableColumns : HeaderCellClick(field)
    \/ \E field \in SortableColumns : CardSortClick(field)
    \/ \E field \in FilterFields, value \in FilterTexts : ColumnFilterInput(field, value)
    \/ \E value \in FilterTexts : GlobalFilterInput(value)
    \/ \E value \in PageSizes : ArticlesPerPageClick(value)
    \/ \E article \in ClickableRows, checked \in BOOLEAN : CheckboxChange(article, checked)
    \/ \E format \in Formats : DownloadClick(format, "Ok", "Ok")

Spec == Init /\ [][Next]_vars

(***************************************************************************)
(* The same view over a response of 25 complete records, where page        *)
(* buttons are rendered; one search at a time.                             *)
(***************************************************************************)
BigSize == 25
BigMatching == 5

\* Record i of the big response: scores are distinct and descending, the first
\* BigMatching titles contain the letter "a".
BigArticle(i) ==
    Article(Some(<< "d" >> \o I32ToString(i)),
            Some(IF i <= BigMatching THEN << "C", "a" >> ELSE << "b" >>),
            Some(<< "j" >>), Some(<< "s" >>), Some(<< "B" >>),
            Some(2), Some(3), Some(BigSize + 1 - i))

BigPayload == [ i \in 1..BigSize |-> BigArticle(i) ]

PagingSortFields == { "score" }
PagingCardFields == { "year_published" }
PagingFormats == { "xlsx" }
PagingFormInputs == { << << "7" >> >> }

NextPaging ==
    \/ \E ids \in PagingFormInputs : pending = 0 /\ Submit(ids)
    \/ ReceiveArticles(BigPayload)
    \/ \E field \in PagingSortFields : HeaderCellClick(field)
    \/ \E field \in PagingCardFields : CardSortClick(field)
    \/ \E field \in FilterFields, value \in FilterTexts : ColumnFilterInput(field, value)
    \/ \E value \in FilterTexts : GlobalFilterInput(value)
    \/ \E page_index \in RenderedPageIndices : PageItemClick(page_index)
    \/ \E value \in PageSizes : ArticlesPerPageClick(value)
    \/ \E article \in ClickableRows, checked \in BOOLEAN : CheckboxChange(article, checked)
    \/ \E format \in PagingFormats : DownloadClick(format, "Ok", "Ok")

SpecPaging == Init /\ [][NextPaging]_vars

(***************************************************************************)
(* The store under load and sort, over responses of up to MaxStoreLen      *)
(* records with tied and absent fields.                                    *)
(***************************************************************************)
MaxStoreLen == 3

ArtEmpty == Article(None, None, None, None, None, None, None, None)
ArtZero == Article(Some(<< "c" >>), Some(<< "C", "a" >>), Some(<< "j" >>), Some(<< "s" >>),
                   Some(<< "B" >>), Some(0), Some(0), Some(0))

StoreRecords == { ArtA, ArtNoDoi, ArtEmpty, ArtZero }

\* The responses of distinct records, in every arrival order.
StorePayloads ==
    { p \in UNION { [ 1..n -> StoreRecords ] : n \in 0..MaxStoreLen } :
        \A i, j \in 1..Len(p) : i # j => p[i] # p[j] }

NextStore ==
    \/ \E ids \in PagingFormInputs : Submit(ids)
    \/ \E payload \in StorePayloads : ReceiveArticles(payload)
    \/ \E field \in SortableColumns : HeaderCellClick(field)
    \/ \E field \in SortableColumns : CardSortClick(field)

SpecStore == Init /\ [][NextStore]_vars

(***************************************************************************)
(* The store under load and sort, over responses whose i32 keys are absent, *)
(* positive or negative.                                                   *)
(***************************************************************************)
ArtNegative == Article(Some(<< "n" >>), Some(<< "b" >>), Some(<< "j" >>), Some(<< "s" >>),
                       Some(<< "B" >>), Some(-1), Some(-1), Some(-1))

SignedRecords == { ArtA, ArtNoDoi, ArtEmpty, ArtNegative }

SignedPayloads ==
    { p \in UNION { [ 1..n -> SignedRecords ] : n \in 0..MaxStoreLen } :
        \A i, j \in 1..Len(p) : i # j => p[i] # p[j] }

NextSigned ==
    \/ \E ids \in PagingFormInputs : Submit(ids)
    \/ \E payload \in SignedPayloads : ReceiveArticles(payload)
    \/ \E field \in SortableColumns : HeaderCellClick(field)
    \/ \E field \in SortableColumns : CardSortClick(field)

SpecSigned == Init /\ [][NextSigned]_vars

(***************************************************************************)
(* The footer over responses of 0 to MaxFooterCount complete records: page *)
(* buttons and page sizes only.                                            *)
(***************************************************************************)
MaxFooterCount == 70

FooterArticle(i) ==
    Article(Some(<< "f" >> \o I32ToString(i)), Some(<< "b" >>), Some(<< "j" >>),
            Some(<< "s" >>), Some(<< "B" >>), Some(2), Some(3), Some(5))

FooterPayload(n) == [ i \in 1..n |-> FooterArticle(i) ]

FooterCounts == { 0, 5, 10, 25, 50, MaxFooterCount }

NextFooter ==
    \/ \E ids \in PagingFormInputs : Submit(ids)
    \/ \E n \in FooterCounts : ReceiveArticles(FooterPayload(n))
    \/ \E page_index \in RenderedPageIndices : PageItemClick(page_index)
    \/ \E value \in PageSizes : ArticlesPerPageClick(value)

SpecFooter == Init /\ [][NextFooter]_vars

(***************************************************************************)
(* The export buttons with every result of the serializer and the browser, *)
(* over the small responses.                                               *)
(***************************************************************************)
NextExport ==
    \/ \E ids \in PagingFormInputs : Submit(ids)
    \/ \E payload \in Payloads : ReceiveArticles(payload)
    \/ \E value \in FilterTexts : GlobalFilterInput(value)
    \/ \E field \in SortableColumns : CardSortClick(field)
    \/ \E article \in ClickableRows, checked \in BOOLEAN : CheckboxChange(article, checked)
    \/ \E format \in Formats, bytes \in CallResults, object_url \in CallResults :
           DownloadClick(format, bytes, object_url)

SpecExport == Init /\ [][NextExport]_vars

(***************************************************************************)
(* The table and the card view side by side: sorts and selection toggles   *)
(* through either surface, over the small responses.                       *)
(***************************************************************************)
NextSurfaces ==
    \/ \E ids \in PagingFormInputs : pending = 0 /\ Submit(ids)
    \/ \E payload \in Payloads : ReceiveArticles(payload)
    \/ \E field \in SortableColumns : HeaderCellClick(field)
    \/ \E field \in SortableColumns : CardSortClick(field)
    \/ \E value \in FilterTexts : GlobalFilterInput(value)
    \/ \E article \in ClickableRows, checked \in BOOLEAN : CheckboxChange(article, checked)
    \/ \E article \in ClickableRows, checked \in BOOLEAN : CardCheckboxChange(article, checked)

SpecSurfaces == Init /\ [][NextSurfaces]_vars

(***************************************************************************)
(* Searches and their responses: every form input, every response, and a   *)
(* response that arrives for every request in flight.                      *)
(***************************************************************************)
ResponseArrives ==
    \/ \E payload \in Payloads : ReceiveArticles(payload)
    \/ ReceiveError

NextResponses ==
    \/ \E ids \in FormInputs : Submit(ids)
    \/ \E payload \in Payloads : ReceiveArticles(payload)
    \/ ReceiveError
    \/ \E field \in SortableColumns : HeaderCellClick(field)
    \/ \E value \in FilterTexts : GlobalFilterInput(value)
    \/ \E article \in ClickableRows, checked \in BOOLEAN : CheckboxChange(article, checked)

\* get_response resolves for every request sent: the fetch ends in a response
\* or in an error.
SpecResponses == Init /\ [][NextResponses]_vars /\ WF_vars(ResponseArrives)

(***************************************************************************)
(* The server's /api endpoint over every body, cookie and search result.   *)
(***************************************************************************)
NextApi ==
    \/ \E body \in ApiBodies, cookie \in Cookies, snowball \in SnowballResults :
           Api(body, cookie, snowball)
    \/ \E k \in 1..MaxEvents, result \in CallResults : EventInsertEnds(k, result)

SpecApi == Init /\ [][NextApi]_vars

(***************************************************************************)
(* The server's /link endpoint: MaxLinkRequests requests, interleaved at   *)
(* their await points.                                                     *)
(***************************************************************************)
NextLink ==
    \/ \E h \in 1..MaxLinkRequests, token \in LinkTokens, select \in CallResults :
           LinkSelect(h, token, select)
    \/ \E h \in 1..MaxLinkRequests, insert \in CallResults : LinkInsert(h, insert)

SpecLink == Init /\ [][NextLink]_vars

(***************************************************************************)
(* Properties.                                                             *)
(***************************************************************************)
Range(seq) == { seq[k] : k \in 1..Len(seq) }
Max(a, b) == IF a > b THEN a ELSE b
FilteredCount == Len(ArticlesToDisplay)
TotalPages == TotalPageNumber(FilteredCount, articles_per_page)
HasSelectedDoi(a) == IsSome(a.doi) /\ a.doi[1] \in selected_articles
Downloaded == download # NoDownload

\* C1: in every state of the mounted view the current page index i satisfies
\* 0 <= i < max(1, total_pages), total_pages = floor(N / P) for the filtered
\* count N and the page size P.
C1_PageIndexInRange ==
    results_status = "Available" =>
        /\ 0 <= table_current_page
        /\ table_current_page < Max(1, TotalPages)

\* C2: every step that replaces the Record Store by a new search result leaves
\* filters, sort states, selection, page size and page index at their defaults.
C2_ViewResetOnReplace ==
    [][ (\E payload \in Payloads : ReceiveArticles(payload)) => ViewIsDefault' ]_vars

\* C3: on the last page (index total_pages - 1, with N >= P) the visible slice
\* has N - (total_pages - 1) * P records.
C3_LastPageSliceLength ==
    ( /\ results_status = "Available"
      /\ FilteredCount >= articles_per_page
      /\ table_current_page = TotalPages - 1 )
    => Len(ArticlesSlice) = FilteredCount - (TotalPages - 1) * articles_per_page

\* C4: three consecutive clicks on one sortable header, starting right after a
\* load with that column in state None, bring the column back to None and the
\* Record Store back to the sequence it held right after the load.
C4_ThreeClicksRestoreLoadOrder ==
    ( header_clicks # Untracked /\ Len(header_clicks) = 3 )
    => /\ SortStateOf(header_clicks[1]) = "None"
       /\ articles = loaded_articles

\* C5: an export made with a non-empty selection holds exactly the records of
\* the full store whose identifier is selected, whatever the filters hide.
C5_SelectedExportFromFullStore ==
    ( Downloaded /\ selected_articles # {} )
    => LET chosen == { k \in 1..Len(articles) : HasSelectedDoi(articles[k]) }
       IN  /\ Range(download[1].articles) = { articles[k] : k \in chosen }
           /\ Len(download[1].articles) = Cardinality(chosen)

C5_Witness ==
    /\ Downloaded
    /\ selected_articles # {}
    /\ \E a \in Range(download[1].articles) : ~Visible(a)

\* C6: filter input, header click, card sort button, page select and page-size
\* select leave the selection unchanged; while the view stays mounted, a step
\* that changes the selection is a checkbox toggle.
C6_SelectionFrame ==
    [][ /\ ( \/ \E field \in Columns, value \in FilterTexts : ColumnFilterInput(field, value)
             \/ \E value \in FilterTexts : GlobalFilterInput(value)
             \/ \E field \in SortableColumns : HeaderCellClick(field)
             \/ \E field \in SortableColumns : CardSortClick(field)
             \/ PageItemClick(table_current_page')
             \/ \E value \in PageSizes : ArticlesPerPageClick(value) )
           => selected_articles' = selected_articles
        /\ ( /\ results_status = "Available"
             /\ results_status' = "Available"
             /\ selected_articles' # selected_articles )
           => \E article \in Range(ArticlesSlice), checked \in BOOLEAN :
                  selected_articles' = UpdateSelected(article.doi[1], checked) ]_vars

C6_Witness ==
    /\ selected_articles # {}
    /\ sort_score # "None"
    /\ table_current_page = 1
    /\ filters["title"] # EmptyString

\* C7: an export made with an empty selection is the whole Record Store, in its
\* current order, whatever the filters hide.
C7_EmptySelectionExportsStore ==
    ( Downloaded /\ selected_articles = {} ) => download[1].articles = articles

C7_Witness ==
    /\ Downloaded
    /\ selected_articles = {}
    /\ sort_year = "Ascending"
    /\ global_filter # EmptyString
    /\ \E a \in Range(download[1].articles) : ~IsSome(a.doi)
    /\ FilteredCount < Len(articles)

\* C8: the filename qualifier of an export is "selected" exactly when the
\* exported records are a strict subset of the Record Store, "all" otherwise.
C8_QualifierIffStrictSubset ==
    Downloaded =>
        LET exported == Range(download[1].articles)
            strict == exported \subseteq Range(articles) /\ exported # Range(articles)
        IN  download[1].suffix = IF strict THEN "selected" ELSE "all"

C8_Witness ==
    /\ Downloaded
    /\ selected_articles # {}
    /\ articles # << >>
    /\ download[1].suffix = "all"

\* C9 as claimed: with an empty selection the qualifier is "all"; with exactly
\* one identifier selected and a non-empty store it is "selected".
C9_OneSelectedMeansSelected ==
    Downloaded =>
        /\ selected_articles = {} => download[1].suffix = "all"
        /\ ( Cardinality(selected_articles) = 1 /\ articles # << >> )
               => download[1].suffix = "selected"

\* C9 as amended: with an empty selection the qualifier is "all"; with exactly
\* one identifier selected it is "selected" exactly when the store holds a
\* record that does not carry that identifier, and "all" otherwise.
C9_OneSelectedAmongOthers ==
    Downloaded =>
        /\ selected_articles = {} => download[1].suffix = "all"
        /\ Cardinality(selected_articles) = 1
               => download[1].suffix =
                      IF \E a \in Range(articles) : ~HasSelectedDoi(a)
                      THEN "selected" ELSE "all"

C9_Witness ==
    /\ Downloaded
    /\ Cardinality(selected_articles) = 1
    /\ Len(articles) = 2
    /\ \E a \in Range(articles) : HasSelectedDoi(a)
    /\ download[1].suffix = "selected"

\* C10: an export made with a non-empty selection encodes as many records as
\* there are selected identifiers.
C10_ExportCountIsSelectionCount ==
    ( Downloaded /\ selected_articles # {} )
    => Len(download[1].articles) = Cardinality(selected_articles)

(***************************************************************************)
(* Order of the store.                                                     *)
(***************************************************************************)
\* No element of s sorts before an element that precedes it.
IsSortedBy(s, field, reverse) ==
    \A i, j \in 1..Len(s) : i < j => ~KeyLess(s[j], s[i], field, reverse)

\* s and t hold the same records, each as many times.
SameRecords(s, t) ==
    /\ Len(s) = Len(t)
    /\ \A a \in Range(s) \cup Range(t) :
          Cardinality({ k \in 1..Len(s) : s[k] = a })
              = Cardinality({ k \in 1..Len(t) : t[k] = a })

\* Position of a record in a sequence of distinct records.
Pos(s, a) == CHOOSE k \in 1..Len(s) : s[k] = a

\* Records of `before` that tie on the key are in the same relative order in `after`.
KeepsTieOrder(before, after, field) ==
    \A i, j \in 1..Len(before) :
        ( i < j /\ SortKey(before[i], field) = SortKey(before[j], field) )
        => Pos(after, before[i]) < Pos(after, before[j])

\* The key and the direction of the sort a header click makes on entering new_state.
HeaderSortField(field, new_state) == IF new_state = "None" THEN "score" ELSE field
HeaderSortReverse(new_state) == new_state # "Ascending"

\* C11: a header click leaves the store sorted by its column in the direction
\* of the state entered (by descending score on the return to None), a card
\* sort button leaves it sorted descending by its column, a load leaves it
\* sorted by descending score, each over the same records; a step that changes
\* the store is no filter, page, page-size, selection or download event.
C11_OrderFollowsLastSort ==
    [][ /\ \A field \in SortableColumns :
              HeaderCellClick(field)
              => /\ IsSortedBy(articles', HeaderSortField(field, SortStateOf(field)'),
                               HeaderSortReverse(SortStateOf(field)'))
                 /\ SameRecords(articles, articles')
        /\ \A field \in SortableColumns :
              CardSortClick(field)
              => IsSortedBy(articles', field, TRUE) /\ SameRecords(articles, articles')
        /\ (\E payload \in Payloads : ReceiveArticles(payload))
              => IsSortedBy(articles', "score", TRUE)
        /\ articles' # articles
              => ~( \/ \E field \in Columns, value \in FilterTexts :
                          ColumnFilterInput(field, value)
                    \/ \E value \in FilterTexts : GlobalFilterInput(value)
                    \/ PageItemClick(table_current_page')
                    \/ \E value \in PageSizes : ArticlesPerPageClick(value)
                    \/ \E article \in Range(articles), checked \in BOOLEAN :
                           CheckboxChange(article, checked)
                    \/ \E format \in Formats, bytes \in CallResults, object_url \in CallResults :
                           DownloadClick(format, bytes, object_url) ) ]_vars

C11_Witness ==
    /\ results_status = "Available"
    /\ sort_year = "Descending"
    /\ articles # loaded_articles
    /\ ~IsSortedBy(articles, "score", TRUE)
    /\ selected_articles # {}
    /\ filters # FiltersDefault
    /\ articles_per_page # 10

\* C12: after a header click or a card sort button, any two records that tie on
\* the sort key (absent counted as 0) are in the relative order they had before.
C12_SortIsStable ==
    [][ /\ \A field \in SortableColumns :
              HeaderCellClick(field)
              => KeepsTieOrder(articles, articles',
                               HeaderSortField(field, SortStateOf(field)'))
        /\ \A field \in SortableColumns :
              CardSortClick(field) => KeepsTieOrder(articles, articles', field) ]_vars

C12_Witness ==
    /\ results_status = "Available"
    /\ sort_citations = "Descending"
    /\ IsSortedBy(articles, "citations", TRUE)
    /\ \E i, j \in 1..Len(articles) :
          /\ i < j
          /\ SortKey(articles[i], "citations") = SortKey(articles[j], "citations")
          /\ articles[i].citations # articles[j].citations
          /\ Pos(loaded_articles, articles[i]) > Pos(loaded_articles, articles[j])

\* C13: sorting the store twice by the same column in the same direction gives
\* the order that sorting it once gives.
C13_SortIsIdempotent ==
    results_status = "Available" =>
        \A field \in SortableColumns, reverse \in BOOLEAN :
            SortByKey(SortByKey(articles, field, reverse), field, reverse)
                = SortByKey(articles, field, reverse)

C13_Witness ==
    /\ results_status = "Available"
    /\ Len(articles) = MaxStoreLen
    /\ SortByKey(articles, "year_published", FALSE) # articles
    /\ \E i, j \in 1..Len(articles) :
          /\ i < j
          /\ SortKey(articles[i], "year_published") = SortKey(articles[j], "year_published")

\* C14: right after a load the store holds the received records sorted by
\* descending score (absent counted as 0), ties in arrival order.
C14_LoadSortsByScore ==
    [][ pending' = pending - 1 =>
            \A payload \in StorePayloads :
                ( Len(payload) = Len(articles') /\ ReceiveArticles(payload) )
                => /\ SameRecords(payload, articles')
                   /\ IsSortedBy(articles', "score", TRUE)
                   /\ KeepsTieOrder(payload, articles', "score") ]_vars

C14_Witness ==
    /\ results_status = "Available"
    /\ articles = << ArtA, ArtEmpty, ArtZero >>
    /\ loaded_articles = articles

(***************************************************************************)
(* The two filter predicates.                                              *)
(***************************************************************************)
HasEveryField(a) == \A c \in Columns : IsSome(a[c])

\* Filter sets with at most one column typed into.
ProbeFilters ==
    { FiltersDefault }
    \cup { [ FiltersDefault EXCEPT ![c] = t ] :
             c \in Columns, t \in FilterTexts \cup { << "0" >> } }

\* C15: with the empty global pattern, matches_global holds of every record of
\* the store, a record with every field absent included.
C15_EmptyGlobalPatternMatchesAll ==
    ( results_status = "Available" /\ global_filter = EmptyString )
    => \A a \in Range(articles) : MatchesGlobal(a, global_filter)

\* C16: matches is false of a record that lacks a field, whatever the filters;
\* under the default filters the visible records are the records of the store
\* with every field present.
C16_AbsentFieldNeverMatches ==
    results_status = "Available" =>
        /\ \A a \in Range(articles), c \in Columns, f \in ProbeFilters \cup { filters } :
              ~Matches([ a EXCEPT ![c] = None ], f)
        /\ ( filters = FiltersDefault /\ global_filter = EmptyString )
              => Range(ArticlesToDisplay) = { a \in Range(articles) : HasEveryField(a) }

C16_Witness ==
    /\ results_status = "Available"
    /\ filters = FiltersDefault
    /\ \E a \in Range(articles) : ~HasEveryField(a) /\ \E c \in Columns : IsSome(a[c])
    /\ ArtEmpty \in Range(articles)
    /\ Len(ArticlesToDisplay) = 1

\* C17: matches holds of every record with all eight fields present when every
\* column filter is the empty string.
C17_EmptyFiltersMatchComplete ==
    results_status = "Available" =>
        \A a \in Range(articles) : HasEveryField(a) => Matches(a, FiltersDefault)

C17_Witness ==
    /\ results_status = "Available"
    /\ filters = FiltersDefault
    /\ ArtZero \in Range(articles)
    /\ ArtA \in Range(articles)
    /\ Len(ArticlesToDisplay) = 2

(***************************************************************************)
(* The page buttons of the footer.                                         *)
(***************************************************************************)
FooterItems == Pagination(FilteredCount, articles_per_page, table_current_page)
FooterLow == ContiguousLowBound(FilteredCount, articles_per_page, table_current_page)
FooterHigh == ContiguousHighBound(FilteredCount, articles_per_page, table_current_page)

\* C18: the footer renders a button for page 0 and, where there is a page, a
\* button for the last page index total_pages - 1.
C18_FirstAndLastButtons ==
    results_status = "Available" =>
        /\ PageItem(0) \in Range(FooterItems)
        /\ TotalPages >= 1 => PageItem(TotalPages - 1) \in Range(FooterItems)

\* C19: with at least 5 pages and the current index on one of them, the window
\* [low, high) holds 2 * radius + 1 pages, lies in [0, total_pages] and
\* contains the current index.
C19_WindowIsFiveWide ==
    ( /\ results_status = "Available"
      /\ TotalPages >= 2 * contiguous_window_radius + 1
      /\ 0 <= table_current_page
      /\ table_current_page < TotalPages )
    => /\ FooterHigh - FooterLow = 2 * contiguous_window_radius + 1
       /\ 0 <= FooterLow
       /\ FooterHigh <= TotalPages
       /\ FooterLow <= table_current_page
       /\ table_current_page < FooterHigh

C19_Witness ==
    /\ results_status = "Available"
    /\ TotalPages > 2 * contiguous_window_radius + 1
    /\ table_current_page = TotalPages - 1

\* C20: an ellipsis follows the first-page button exactly when a page index
\* lies strictly between 0 and the first page of the window, and an ellipsis
\* precedes the last-page button exactly when a page index lies strictly
\* between the last page of the window and the last page.
C20_EllipsisIffGap ==
    results_status = "Available" =>
        /\ EllipsisItem \in Range(PaginationHead(FilteredCount, articles_per_page,
                                                 table_current_page))
              <=> \E i \in 0..TotalPages : 0 < i /\ i < FooterLow
        /\ EllipsisItem \in Range(PaginationTail(FilteredCount, articles_per_page,
                                                 table_current_page))
              <=> \E i \in 0..TotalPages : FooterHigh - 1 < i /\ i < TotalPages - 1

(***************************************************************************)
(* The visible slice and the page size.                                    *)
(***************************************************************************)
\* C21: in every state of the mounted view, a page index left beyond the last
\* page included, the slice bounds are first = clamp(i*P, 0, N) and
\* last = clamp(i*P + P, 0, N) with 0 <= first <= last <= N; the slice has at
\* most P records and is the run first+1..last of the filtered view, which
\* follows the order of the store.
C21_SliceWithinBounds ==
    results_status = "Available" =>
        LET n == FilteredCount
            first == FirstArticle(n)
            last == LastArticle(n)
            view == ArticlesToDisplay
            slice == ArticlesSlice
        IN  /\ first = Clamp(table_current_page * articles_per_page, 0, n)
            /\ last = Clamp(table_current_page * articles_per_page + articles_per_page, 0, n)
            /\ 0 <= first
            /\ first <= last
            /\ last <= n
            /\ Len(slice) <= articles_per_page
            /\ Len(slice) = last - first
            /\ \A k \in 1..Len(slice) : slice[k] = view[first + k]
            /\ \A j, k \in 1..n : j < k => Pos(articles, view[j]) < Pos(articles, view[k])

C21_Witness ==
    /\ results_status = "Available"
    /\ FilteredCount > 0
    /\ table_current_page * articles_per_page > FilteredCount
    /\ ArticlesSlice = << >>

\* C22: a click on a page-size item sets the page size to the item's value, one
\* of 10, 50, 100 and 500, and the page index to 0; it leaves the store, the
\* filters, the sort states and the selection as they were.
C22_PageSizeSelectResetsPage ==
    [][ \A value \in PageSizes :
            ArticlesPerPageClick(value)
            => /\ articles_per_page' = value
               /\ table_current_page' = 0
               /\ UNCHANGED << articles, global_filter, filters, sort_year,
                               sort_citations, sort_score, selected_articles >> ]_vars

C22_Witness ==
    /\ results_status = "Available"
    /\ articles_per_page = 500
    /\ table_current_page = 0
    /\ selected_articles # {}
    /\ sort_score # "None"
    /\ global_filter # EmptyString
    /\ header_clicks = Untracked

(***************************************************************************)
(* The export handlers.                                                    *)
(***************************************************************************)
\* C23: when the serializer fails, the export handler logs the failure and
\* does nothing else: it does not panic, hands no file to the browser and
\* leaves the store, the selection, the filters, the sort states and the
\* pagination state as they were.
C23_SerializeFailureOnlyLogs ==
    [][ ( \E format \in Formats, object_url \in CallResults :
              DownloadClick(format, "Err", object_url) )
        => /\ handler_end' = "LoggedError"
           /\ download' = NoDownload
           /\ UNCHANGED << articles, viewVars >> ]_vars

(***************************************************************************)
(* The two presentation surfaces.                                          *)
(***************************************************************************)
SurfaceArticles(surface) == [ k \in 1..Len(surface) |-> surface[k].article ]

\* C24: a sort made through a header or through a card button reorders the
\* one store, a toggle of a row's or of a card's checkbox updates the one
\* selection set, and after every step the table and the card view show the
\* same records in the same order with the same selected flags, those of the
\* visible slice and of the selection set.
C24_SurfacesAgree ==
    [][ /\ \A field \in SortableColumns :
              HeaderCellClick(field)
              => IsSortedBy(articles', HeaderSortField(field, SortStateOf(field)'),
                            HeaderSortReverse(SortStateOf(field)'))
        /\ \A field \in SortableColumns :
              CardSortClick(field) => IsSortedBy(articles', field, TRUE)
        /\ \A article \in Range(ArticlesSlice), checked \in BOOLEAN :
              ( /\ IsSome(article.doi)
                /\ CheckboxChange(article, checked) \/ CardCheckboxChange(article, checked) )
              => (article.doi[1] \in selected_articles') = checked
        /\ results_status' = "Available"
              => \A slice \in { ArticlesSlice' }, rows \in { TableSurface' },
                    cards \in { CardSurface' }, selected \in { selected_articles' } :
                     /\ rows = cards
                     /\ SurfaceArticles(cards) = slice
                     /\ \A k \in 1..Len(slice) :
                           cards[k].is_selected
                               = ( IsSome(slice[k].doi) /\ slice[k].doi[1] \in selected ) ]_vars

C24_Witness ==
    /\ results_status = "Available"
    /\ Len(CardSurface) = 2
    /\ \E k \in 1..Len(CardSurface) : CardSurface[k].is_selected
    /\ \E k \in 1..Len(TableSurface) : ~TableSurface[k].is_selected
    /\ SurfaceArticles(TableSurface) # loaded_articles

\* C28: once an export click has been handled, the object URL created for its
\* download has been released.
C28_ObjectUrlReleased ==
    Downloaded => download[1].url_released

(***************************************************************************)
(* Records without an identifier.                                          *)
(***************************************************************************)
\* C25: a record without a DOI is never selected: a toggle of its checkbox, in
\* a row or in a card, leaves the selection set as it is; after every step
\* neither surface reports such a record as selected, and an export made with
\* a non-empty selection holds no such record.
C25_NoIdentifierNeverSelected ==
    [][ /\ \A article \in Range(articles), checked \in BOOLEAN :
              ( /\ ~IsSome(article.doi)
                /\ CheckboxChange(article, checked) \/ CardCheckboxChange(article, checked) )
              => selected_articles' = selected_articles
        /\ \A a \in Range(articles') :
              ~IsSome(a.doi) => ~RowIsSelected(a)' /\ ~CardIsSelected(a)'
        /\ ( download' # NoDownload /\ selected_articles' # {} )
              => \A k \in 1..Len(download'[1].articles) :
                    IsSome(download'[1].articles[k].doi) ]_vars

C25_Witness ==
    /\ Downloaded
    /\ selected_articles # {}
    /\ \E a \in Range(articles) : ~IsSome(a.doi)
    /\ Len(download[1].articles) = 1

(***************************************************************************)
(* The store under the events of the view.                                 *)
(***************************************************************************)
\* C26: a filter input (global or column), a click on a page button, a click
\* on a page-size item and a checkbox toggle (row or card) leave the store as
\* it was: the same records in the same order.
C26_ViewEventsKeepStore ==
    [][ ( \/ \E field \in Columns, value \in FilterTexts : ColumnFilterInput(field, value)
          \/ \E value \in FilterTexts : GlobalFilterInput(value)
          \/ PageItemClick(table_current_page')
          \/ \E value \in PageSizes : ArticlesPerPageClick(value)
          \/ \E article \in Range(ArticlesSlice), checked \in BOOLEAN :
                 CheckboxChange(article, checked) \/ CardCheckboxChange(article, checked) )
        => articles' = articles ]_vars

C26_Witness ==
    /\ results_status = "Available"
    /\ global_filter # EmptyString
    /\ table_current_page = 1
    /\ selected_articles # {}
    /\ FilteredCount < Len(articles)
    /\ articles = BigPayload

(***************************************************************************)
(* Absent sort keys.                                                       *)
(***************************************************************************)
\* The key of the claim: the value of the field, 0 where it is absent.
KeyOrZero(a, field) == IF IsSome(a[field]) THEN a[field][1] ELSE 0

\* After a sort by `field`, the keys with absent counted as 0 never decrease
\* (never increase, for a descending sort) along s.
OrderedWithAbsentAsZero(s, field, reverse) ==
    \A i, j \in 1..Len(s) :
        i < j => IF reverse THEN KeyOrZero(s[i], field) >= KeyOrZero(s[j], field)
                 ELSE KeyOrZero(s[i], field) <= KeyOrZero(s[j], field)

\* C27 as claimed: every sort orders the records by their key with an absent
\* key counted as 0, so that after an ascending sort by a column every record
\* whose key in that column is absent precedes every record whose key is
\* present and not 0.
C27_AbsentKeyBeforeNonZero ==
    [][ \A field \in SortableColumns :
            /\ HeaderCellClick(field)
                  => OrderedWithAbsentAsZero(articles',
                                             HeaderSortField(field, SortStateOf(field)'),
                                             HeaderSortReverse(SortStateOf(field)'))
            /\ CardSortClick(field) => OrderedWithAbsentAsZero(articles', field, TRUE)
            /\ ( HeaderCellClick(field) /\ SortStateOf(field)' = "Ascending" )
                  => \A i, j \in 1..Len(articles') :
                        ( /\ ~IsSome(articles'[i][field])
                          /\ IsSome(articles'[j][field])
                          /\ articles'[j][field] # Some(0) )
                        => i < j ]_vars

\* C27 as amended: every sort orders the records by their key with an absent
\* key counted as 0, so that after an ascending sort by a column every record
\* whose key in that column is absent precedes every record whose key is
\* present and greater than 0.
C27_AbsentKeyBeforePositive ==
    [][ \A field \in SortableColumns :
            /\ HeaderCellClick(field)
                  => OrderedWithAbsentAsZero(articles',
                                             HeaderSortField(field, SortStateOf(field)'),
                                             HeaderSortReverse(SortStateOf(field)'))
            /\ CardSortClick(field) => OrderedWithAbsentAsZero(articles', field, TRUE)
            /\ ( HeaderCellClick(field) /\ SortStateOf(field)' = "Ascending" )
                  => \A i, j \in 1..Len(articles') :
                        ( /\ ~IsSome(articles'[i][field])
                          /\ IsSome(articles'[j][field])
                          /\ articles'[j][field][1] > 0 )
                        => i < j ]_vars

C27_Witness ==
    /\ results_status = "Available"
    /\ sort_citations = "Ascending"
    /\ articles = << ArtNegative, ArtNoDoi, ArtA >>
    /\ loaded_articles = << ArtA, ArtNoDoi, ArtNegative >>

(***************************************************************************)
(* Searches in flight.                                                     *)
(***************************************************************************)
\* C29: once every response has been delivered, the results status on display
\* is the outcome of the search submitted last, in whatever order the
\* responses arrived: it has not been overwritten by the response of an older
\* search.
C29_LatestSearchWins ==
    ( pending = 0 /\ results_status \in { "Available", "RequestError" } )
    => latest_search # "Overwritten"

(***************************************************************************)
(* Paging through the filtered view.                                       *)
(***************************************************************************)
\* The page indices on the buttons rendered for n records on page current_page.
ButtonIndices(n, per_page, current_page) ==
    LET items == Pagination(n, per_page, current_page)
    IN  { items[k].page_index : k \in { k \in 1..Len(items) : items[k].kind = "PageItem" } }

\* The page indices reached from `pages` by clicks on rendered page buttons.
RECURSIVE PagesReachedFrom(_, _, _)
PagesReachedFrom(pages, n, per_page) ==
    LET more == pages \cup UNION { ButtonIndices(n, per_page, i) : i \in pages }
    IN  IF more = pages THEN pages ELSE PagesReachedFrom(more, n, per_page)

\* C30: every record of the filtered view is in the visible slice of page 0 or
\* of a page reached from page 0 by clicks on page buttons, at the page size in
\* force.
C30_EveryRecordReachableByPaging ==
    results_status = "Available" =>
        \A k \in 1..FilteredCount :
            \E i \in PagesReachedFrom({ 0 }, FilteredCount, articles_per_page) :
                /\ Clamp(i * articles_per_page, 0, FilteredCount) < k
                /\ k <= Clamp(i * articles_per_page + articles_per_page, 0, FilteredCount)

(***************************************************************************)
(* The order behind sort states that are all None.                         *)
(***************************************************************************)
\* C33: whenever the sort states of the year, citations and score columns are
\* all None, the store is in descending-score order, after any sequence of
\* header clicks and card-view sort button clicks.
C33_AllNoneMeansScoreOrder ==
    ( /\ results_status = "Available"
      /\ sort_year = "None"
      /\ sort_citations = "None"
      /\ sort_score = "None" )
    => IsSortedBy(articles, "score", TRUE)

(***************************************************************************)
(* The selection against the store.                                        *)
(***************************************************************************)
\* C34: every identifier of the selection is the identifier of a record of the
\* store, so the records exported under a selection that is not empty are not
\* an empty list.
C34_SelectionWithinStore ==
    results_status = "Available" =>
        /\ \A doi \in selected_articles :
              \E k \in 1..Len(articles) : articles[k].doi = Some(doi)
        /\ selected_articles # {} => GetArticlesToDownload # << >>

(***************************************************************************)
(* The page indices on the buttons.                                        *)
(***************************************************************************)
\* The page indices of the buttons rendered for n records at page size
\* per_page on page current_page, in the order rendered.
PageButtonSequence(n, per_page, current_page) ==
    LET buttons == SelectSeq(Pagination(n, per_page, current_page),
                             LAMBDA item : item.kind = "PageItem")
    IN  [ k \in 1..Len(buttons) |-> buttons[k].page_index ]

IncreasingWithin(indices, total) ==
    /\ \A j, k \in 1..Len(indices) : j < k => indices[j] < indices[k]
    /\ \A k \in 1..Len(indices) : 0 <= indices[k] /\ indices[k] < total

\* C38: the page buttons rendered carry strictly increasing page indices, all
\* in [0, total_pages): no index is rendered twice, none is -1 and none is
\* total_pages or more; in the state on display, and for every record count up
\* to MaxFooterCount at every page size on every page index up to one past the
\* last page of the smallest page size.
C38_ButtonIndicesIncreaseInRange ==
    /\ results_status = "Available" =>
          IncreasingWithin(PageButtonSequence(FilteredCount, articles_per_page,
                                              table_current_page),
                           TotalPages)
    /\ \A n \in 0..MaxFooterCount, per_page \in PageSizes,
          current_page \in 0..(MaxFooterCount \div 10 + 1) :
          IncreasingWithin(PageButtonSequence(n, per_page, current_page),
                           TotalPageNumber(n, per_page))

\* The first-page button, the window and the last-page button all rendered.
C38_Witness ==
    /\ results_status = "Available"
    /\ FooterLow > 0
    /\ FooterHigh < TotalPages
    /\ Len(PageButtonSequence(FilteredCount, articles_per_page, table_current_page))
           = 2 * contiguous_window_radius + 3

(***************************************************************************)
(* A submission and its response.                                          *)
(***************************************************************************)
\* C36: a submission whose form is not valid sends no request and leaves the
\* status RequestError; a submission whose form is valid leaves the status
\* Requested and sends exactly one request; and, responses arriving, a status
\* Requested is followed by a status Available or RequestError.
C36_RequestedIsLeft ==
    /\ [][ \A ids \in FormInputs :
              Submit(ids) =>
                  IF SnowballParametersNew(ids) = "Ok"
                  THEN results_status' = "Requested" /\ pending' = pending + 1
                  ELSE results_status' = "RequestError" /\ pending' = pending ]_vars
    /\ ( results_status = "Requested" )
           ~> ( results_status \in { "Available", "RequestError" } )

\* The response of the valid submission made last has arrived and is shown.
C36_Witness ==
    /\ results_status = "Available"
    /\ latest_search = "Shown"
    /\ pending = 0

(***************************************************************************)
(* The server: one session identifier per Biblitest token.                 *)
(***************************************************************************)
\* The /link requests that ended with status 200.
LinkedHandlers ==
    { h \in 1..MaxLinkRequests :
          link_handlers[h].pc = "Done" /\ link_handlers[h].status = 200 }

\* C31: under every interleaving of /link requests, the token_link table holds
\* at most one session identifier per token, the bbz_sid of every successful
\* response is the one stored for its token, and two successful responses for
\* one token carry the same bbz_sid.
C31_OneSessionPerToken ==
    /\ \A r1, r2 \in token_link :
          r1.biblitest_token = r2.biblitest_token => r1.bbz_sid = r2.bbz_sid
    /\ \A h \in LinkedHandlers :
          TokenLinkRow(link_handlers[h].token, link_handlers[h].bbz_sid[1]) \in token_link
    /\ \A h1, h2 \in LinkedHandlers :
          link_handlers[h1].token = link_handlers[h2].token
          => link_handlers[h1].bbz_sid = link_handlers[h2].bbz_sid

\* Two requests for one token both found no row and both inserted: the second
\* insert met the row of the first and returned its bbz_sid, not its own.
C31_Witness ==
    \E h1, h2 \in LinkedHandlers :
        /\ h1 # h2
        /\ link_handlers[h1].token = link_handlers[h2].token
        /\ link_handlers[h1].new_sid = link_handlers[h1].bbz_sid
        /\ link_handlers[h2].new_sid # None
        /\ link_handlers[h2].new_sid # link_handlers[h2].bbz_sid

(***************************************************************************)
(* The server: the answers of /api.                                        *)
(***************************************************************************)
ValidationErrors == { "TooManyIds", "NoValidIds", "InvalidIdFormat" }

\* The entries of a list that are neither a DOI nor a PMID for the server.
InvalidEntries(list) == { k \in 1..Len(list) : ~server_is_valid_id(list[k]) }

\* C35: a request whose list has more than 7 entries, is empty or holds an
\* entry that is neither a DOI nor a PMID is rejected without the search being
\* run, with TooManyIds, NoValidIds or InvalidIdFormat, each only where its
\* condition holds and InvalidIdFormat naming the first such entry; a list
\* under none of the three conditions is searched; the status is 400 for these
\* three errors, 200 for success and 500 for every other failure.
C35_ValidationAndStatus ==
    api_exchange # None =>
        LET x == api_exchange[1] IN
        /\ x.status = 200 <=> x.result = "Ok"
        /\ x.status = 400 <=> x.result \in ValidationErrors
        /\ x.status = 500 <=> x.result \notin ValidationErrors \cup { "Ok" }
        /\ x.body # None =>
              LET list == x.body[1] IN
              /\ ( Len(list) > 7 \/ list = << >> \/ InvalidEntries(list) # {} )
                     <=> x.result \in ValidationErrors
              /\ x.result \in ValidationErrors <=> ~x.snowball_ran
              /\ x.result = "TooManyIds" => Len(list) > 7
              /\ x.result = "NoValidIds" => list = << >>
              /\ x.result = "InvalidIdFormat" =>
                     /\ InvalidEntries(list) # {}
                     /\ \E k \in InvalidEntries(list) :
                            /\ \A m \in InvalidEntries(list) : k <= m
                            /\ x.detail = << list[k] >>

\* A list with two different invalid entries was rejected.
C35_Witness ==
    /\ api_exchange # None
    /\ api_exchange[1].result = "InvalidIdFormat"
    /\ api_exchange[1].status = 400
    /\ Cardinality({ api_exchange[1].body[1][k] :
                         k \in InvalidEntries(api_exchange[1].body[1]) }) > 1

(***************************************************************************)
(* The server: the tracking events of /api.                                *)
(***************************************************************************)
\* C37: a /api request starts exactly one event insert where its bbz_sid
\* cookie parses as a UUID and none otherwise; the event is search_success
\* exactly when the response is 200 and search_error otherwise; and the end of
\* an insert, success or failure, leaves the response as it was sent.
C37_OneEventPerSession ==
    [][ /\ ( api_exchange' # api_exchange \/ Len(bbz_events') # Len(bbz_events) )
           => /\ api_exchange' # None
              /\ IF ParseUuid(api_exchange'[1].cookie) # None
                 THEN /\ Len(bbz_events') = Len(bbz_events) + 1
                      /\ SubSeq(bbz_events', 1, Len(bbz_events)) = bbz_events
                      /\ bbz_events'[Len(bbz_events')].insert = "Started"
                      /\ bbz_events'[Len(bbz_events')].event_type = "search_success"
                             <=> api_exchange'[1].status = 200
                      /\ bbz_events'[Len(bbz_events')].event_type = "search_error"
                             <=> api_exchange'[1].status # 200
                 ELSE bbz_events' = bbz_events
        /\ ( bbz_events' # bbz_events /\ Len(bbz_events') = Len(bbz_events) )
           => api_exchange' = api_exchange ]_vars

\* A request with a session was rejected, its search_error insert was started
\* and has failed since.
C37_Witness ==
    /\ api_exchange # None
    /\ ParseUuid(api_exchange[1].cookie) # None
    /\ api_exchange[1].status = 400
    /\ bbz_events # << >>
    /\ bbz_events[Len(bbz_events)].event_type = "search_error"
    /\ bbz_events[Len(bbz_events)].insert = "Failed"

(***************************************************************************)
(* The form's validation against the server's.                             *)
(***************************************************************************)
\* C32: the form and the server accept the same identifier lists: a list that
\* SnowballParameters::new lets through is not rejected by handle_request with
\* TooManyIds, NoValidIds or InvalidIdFormat, and a list the form rejects is.
C32_FormAndServerAgree ==
    ( api_exchange # None /\ api_exchange[1].body # None )
    => ( SnowballParametersNew(api_exchange[1].body[1]) = "Ok"
             <=> api_exchange[1].result \notin ValidationErrors )

(***************************************************************************)
(* The form of a DOI.                                                      *)
(***************************************************************************)
\* The documented form: "10.", then at least 4 digits, then "/", then a suffix
\* that is not empty.
DocumentedDoiForm(s) ==
    \E digits \in 4..Len(s) :
        /\ StartsWith(s, << "1", "0", "." >>)
        /\ \A k \in 4..(3 + digits) : IsAsciiDigit(s[k])
        /\ Len(s) > 4 + digits
        /\ s[4 + digits] = "/"

\* C39: is_valid_doi accepts only strings of the documented form, and the
\* copy of the form and the copy of the server give the same answer, on every
\* identifier of a request.
C39_DoiFormAndCopiesAgree ==
    ( api_exchange # None /\ api_exchange[1].body # None )
    => \A k \in 1..Len(api_exchange[1].body[1]) :
           LET s == api_exchange[1].body[1][k] IN
           /\ server_is_valid_doi(s) => DocumentedDoiForm(s)
           /\ is_valid_doi(s) => DocumentedDoiForm(s)
           /\ is_valid_doi(s) <=> server_is_valid_doi(s)

====
